---- MODULE Spec2Model ----
(***************************************************************************)
(* Police-submission (SES/Hospedajes) pipeline of the check-in backend.    *)
(*                                                                         *)
(* The model follows one reservation and its check-in row through          *)
(*   - CompleteCheckInView.create            (checkin/views.py)            *)
(*   - the Celery task submit_ses_report     (checkin/tasks.py)            *)
(*   - DailyPoliceReportAPIView.post         (checkin/views.py)            *)
(*   - PoliceSubmissionRetryAPIView.post     (checkin/views.py)            *)
(*   - SESHospedajesService                  (checkin/utills.py)           *)
(* The check-in row exists for the whole run, so the CheckIn.DoesNotExist  *)
(* branch of the task (tasks.py:79-81) is not taken.                       *)
(*                                                                         *)
(* Spec follows the submissions of the check-in.  Further specifications   *)
(* follow one part of the program each, on variables Spec leaves alone:    *)
(*   - SchedulingSpec       the eta computed when the task is scheduled    *)
(*   - DailyReportSpec      one daily report over several reservations     *)
(*   - GuestSpec            the Guest rows of the check-in, its completion *)
(*   - ConcurrentGuestSpec  add-guest requests running concurrently        *)
(*   - BuilderSpec          the document built from the Guest rows         *)
(*   - PackagingSpec        the SOAP envelope built for a document         *)
(*   - CompletionSpec       the completion request with its amounts        *)
(*   - WebhookSpec          Stripe invoice events of one subscription      *)
(*                          (payment/services/stripe_service.py)           *)
(***************************************************************************)
EXTENDS Integers, Sequences, FiniteSets, TLC

\* ------------------------------------------------------------------ bounds
NumWorkers == 1
NumDaily == 2
MaxApply == 1
MaxDailyRuns == 2
MaxManual == 1
MaxRows == 3
MaxDay == 3
MaxReservations == 2
MaxGuests == 2
MaxXmlLen == 4
MaxCalls == 2
\* largest reservation amount, in whole currency units
MaxAmount == 2
\* successful card charges followed for one reservation
MaxCharges == 1
\* invoice.payment_failed events followed for one subscription
MaxFailures == 4
\* Stripe invoices of one subscription
MaxInvoices == 2
NumAdders == 2

\* ------------------------------------------------------- program constants
\* max_retries of the task decorator (tasks.py:18)
MaxRetries == 3
\* base of the countdown passed to self.retry (tasks.py:100)
BackoffBase == 30
\* retry_backoff_max of the task decorator (tasks.py:21)
BackoffCap == 600

Workers == 1..NumWorkers
DailyWorkers == 1..NumDaily

\* CheckInStatus (checkin/models.py:33-39)
CheckInStatus ==
    [PENDING |-> "pending", IN_PROGRESS |-> "in_progress",
     PAYMENT_PENDING |-> "payment_pending", COMPLETED |-> "completed",
     FAILED |-> "failed", EXPIRED |-> "expired"]

\* ReservationStatus (checkin/models.py:28-30)
ReservationStatus == [CONFIRMED |-> "confirmed", CANCELLED |-> "cancelled"]

\* PoliceSubmissionLog.SubmissionStatus (checkin/models.py:355-361)
SubmissionStatus ==
    [PENDING |-> "pending", VALIDATED |-> "validated", SUBMITTED |-> "submitted",
     ACKNOWLEDGED |-> "acknowledged", FAILED |-> "failed", RETRYING |-> "retrying"]

VARIABLES
    ciStatus,      \* CheckIn.status, committed value
    resStatus,     \* Reservation.status
    autoSubmit,    \* Reservation.is_auto_submit
    pastCheckout,  \* timezone.now() > reservation.check_out_date
    logs,          \* committed PoliceSubmissionLog rows, in creation order
    queue,         \* task messages waiting in the Celery broker
    tw,            \* task workers running submit_ses_report
    dw,            \* requests running DailyPoliceReportAPIView.post
    complete,      \* outcome of the last CompleteCheckInView request
    hist,          \* number of external requests made so far
    sched,         \* the last request that scheduled the task, and its etas
    report,        \* a DailyPoliceReportAPIView request over several reservations
    party,         \* Reservation.total_guests and the Guest rows of the check-in
    pack,          \* the last SOAP envelope built, and the document it was built for
    doc,           \* the documents returned by calls of _generate_guest_xml
    adding,        \* GuestListCreateView requests between their count check and their insert
    stay,          \* the reservation's amounts and the last completion request
    sub            \* a landlord subscription, its failure logs and invoices

vars == <<ciStatus, resStatus, autoSubmit, pastCheckout, logs, queue, tw, dw,
          complete, hist, sched, report, party, pack, doc, adding, stay, sub>>

\* the variables the submission pipeline of one check-in leaves alone
auxVars == <<sched, report, party, pack, doc, adding, stay, sub>>

\* ------------------------------------------------------------- responses
\* A regulator response body, described by what the client looks for in it:
\*   ok   the text contains "<codigo>0</codigo>"
\*   dup  the text contains "<codigo>10121</codigo>" and "Lote duplicado"
\*   xml  "ns"    well-formed, with ns:codigo and ns:descripcion elements
\*        "plain" well-formed, without elements in the ns namespace
\*        "bad"   not well-formed XML
Bodies ==
    { [ok |-> TRUE,  dup |-> FALSE, xml |-> "plain"],
      [ok |-> FALSE, dup |-> TRUE,  xml |-> "plain"],
      [ok |-> FALSE, dup |-> FALSE, xml |-> "ns"],
      [ok |-> FALSE, dup |-> FALSE, xml |-> "plain"],
      [ok |-> FALSE, dup |-> FALSE, xml |-> "bad"] }

StatusCodes == {200, 500}

HttpResponses == [code : StatusCodes, body : Bodies]

\* requests.post either returns a response or raises (timeout, connection)
NoBody == [ok |-> FALSE, dup |-> FALSE, xml |-> "bad"]
PostRaised == [code |-> 0, body |-> NoBody]
PostOutcomes == HttpResponses \cup {PostRaised}
NoResp == [code |-> -1, body |-> NoBody]

\* the regulator accepted the batch
Ok200(resp) == resp.code = 200 /\ resp.body.ok

\* --------------------------------------------------------------- ledger
\* a PoliceSubmissionLog row; error is "" or the kind of error_message
LogRow(st, rc, err) == [status |-> st, retry_count |-> rc, error |-> err]

\* a save that stores the status the caller set
CheckInSavePlain(st) == st

\* CheckIn.save with the is_expired rule (checkin/models.py:162-169)
CheckInSave(st) ==
    IF pastCheckout /\ st # CheckInStatus.COMPLETED THEN CheckInStatus.EXPIRED ELSE st

\* SESHospedajesService._extract_error (checkin/utills.py:166-175)
ExtractError(body) ==
    IF body.xml = "ns" THEN "ses_code_and_message" ELSE "error_parsing_response"

\* SESHospedajesService._log_submission (checkin/utills.py:177-188):
\* creates the row; on success it then reads CheckInStatus.SUBMITTED, which
\* raises AttributeError when the enumeration has no such member.
LogSubmission(success, message) ==
    [rows   |-> <<LogRow(IF success THEN "success" ELSE "failed", 0, "")>>,
     raised |-> success /\ "SUBMITTED" \notin DOMAIN CheckInStatus]

\* the same without the try/except of _extract_error: the parser's exception
\* (ParseError, or AttributeError on a missing element) propagates
HandleResponseUncaught(resp) ==
    IF resp.code = 200
    THEN IF resp.body.ok
         THEN LET l == LogSubmission(TRUE, "response") IN
              [rows |-> l.rows, raised |-> l.raised, success |-> TRUE, error |-> ""]
         ELSE IF resp.body.xml # "ns"
         THEN [rows |-> <<>>, raised |-> TRUE, success |-> FALSE, error |-> ""]
         ELSE LET msg == ExtractError(resp.body)
                  l == LogSubmission(FALSE, msg) IN
              [rows |-> l.rows, raised |-> l.raised, success |-> FALSE, error |-> msg]
    ELSE LET l == LogSubmission(FALSE, "http_error") IN
         [rows |-> l.rows, raised |-> l.raised, success |-> FALSE, error |-> "http_error"]

\* SESHospedajesService._handle_response (checkin/utills.py:151-164)
\* result: rows written, whether it raised, and the dictionary returned
HandleResponse(resp) ==
    IF resp.code = 200
    THEN IF resp.body.ok
         THEN LET l == LogSubmission(TRUE, "response") IN
              [rows |-> l.rows, raised |-> l.raised, success |-> TRUE, error |-> ""]
         ELSE LET msg == ExtractError(resp.body)
                  l == LogSubmission(FALSE, msg) IN
              [rows |-> l.rows, raised |-> l.raised, success |-> FALSE, error |-> msg]
    ELSE LET l == LogSubmission(FALSE, "http_error") IN
         [rows |-> l.rows, raised |-> l.raised, success |-> FALSE, error |-> "http_error"]

\* methods defined by SESHospedajesService (checkin/utills.py:16-188)
ServiceMethods ==
    {"_create_soap_envelope", "_zip_and_encode_xml", "_generate_guest_xml",
     "_map_document_type", "submit_check_in", "_handle_response",
     "_extract_error", "_log_submission"}

\* countdown passed to self.retry (tasks.py:100)
RECURSIVE Pow2(_)
Pow2(n) == IF n = 0 THEN 1 ELSE 2 * Pow2(n - 1)

\* a countdown that does not grow with the number of retries
RetryCountdownFixed(retries) == BackoffBase

RetryCountdown(retries) == Pow2(retries) * BackoffBase

\* a task message: the request's retries, who enqueued the first message,
\* the countdown it was enqueued with, and two facts about the earlier runs
\* of the same message chain: how many failure notifications they asked the
\* email service to send, and whether all of them ended in a transport failure
Message(r, o, n, c, k, t) ==
    [retries |-> r, origin |-> o, n |-> n, countdown |-> c, notified |-> k,
     transport |-> t]

\* ------------------------------------------------------------ scheduling
\* Instants are minutes since midnight UTC of day 0.  A DateTimeField holds
\* the UTC instant; a local wall-clock time is the instant plus the offset
\* of the current time zone.
MinutesPerDay == 1440
\* "21:00" (checkin/views.py:308, checkin/serializers.py:432)
TargetMinute == 1260
\* timedelta(minutes=5) (checkin/views.py:313, checkin/serializers.py:436)
FallbackMinutes == 5

\* offsets of the current time zone: UTC and UTC+2
Offsets == {0, 120}

\* arrival times of day: 00:30, 14:00 and 23:30 local
ArrivalMinutes == {30, 840, 1410}
ArrivalDays == 2..MaxDay
Arrivals == [day : ArrivalDays, minute : ArrivalMinutes]

\* values of timezone.now(): midnight and the minutes around 19:00 and
\* 21:00 UTC of every day
NowTimes == {d * MinutesPerDay + m : d \in 0..MaxDay,
                                     m \in {0, 1139, 1140, 1141, 1259, 1260, 1261}}

\* timezone.make_aware(naive, current time zone)
MakeAware(localMinutes, offset) == localMinutes - offset
\* timezone.localtime(aware)
Localtime(instant, offset) == instant + offset
\* datetime.date()
DateOf(minutes) == minutes \div MinutesPerDay
\* datetime.combine(date, time)
Combine(day, minute) == day * MinutesPerDay + minute

\* Reservation.check_in_date as stored for an arrival given in local time
StoredInstant(a, offset) == MakeAware(Combine(a.day, a.minute), offset)

\* the same computation with the date taken from the stored (UTC) value
CompleteEtaUtcDate(now, check_in_date, offset) ==
    LET scheduled_date == DateOf(check_in_date) - 1
        scheduled_time == MakeAware(Combine(scheduled_date, TargetMinute), offset)
    IN  IF scheduled_time <= now THEN now + FallbackMinutes ELSE scheduled_time

\* the eta computed by CompleteCheckInView.create (checkin/views.py:303-313)
CompleteEta(now, check_in_date, offset) ==
    LET checkin_date_local == DateOf(Localtime(check_in_date, offset))
        scheduled_date == checkin_date_local - 1
        scheduled_time == MakeAware(Combine(scheduled_date, TargetMinute), offset)
    IN  IF scheduled_time <= now THEN now + FallbackMinutes ELSE scheduled_time

\* the eta computed by CheckInSerializer.create (checkin/serializers.py:427-437)
SerializerEta(now, check_in_date, offset) ==
    LET checkin_date_local == DateOf(Localtime(check_in_date, offset))
        scheduled_date == checkin_date_local - 1
        scheduled_time == MakeAware(Combine(scheduled_date, TargetMinute), offset)
    IN  IF scheduled_time <= now THEN now + FallbackMinutes ELSE scheduled_time

\* the eta computed by CheckInCreateAPIView.create (checkin/views.py:376-381):
\* datetime.combine takes the date fields of the stored value
CreateEta(now, check_in_date, offset) ==
    MakeAware(Combine(DateOf(check_in_date - MinutesPerDay), TargetMinute), offset)

NoSchedule == [path |-> "none", now |-> 0, arrival |-> [day |-> 0, minute |-> 0],
               offset |-> 0, etas |-> <<>>]

\* ------------------------------------------- daily report, whole request
\* a reservation selected by the filter of checkin/views.py:560-564, with
\* what the loop reads of it: the status of its check-in ("none" when it has
\* no check_in_process) and whether an ACKNOWLEDGED row exists
SelectedReservations ==
    [checkin : {"none", CheckInStatus.IN_PROGRESS, CheckInStatus.COMPLETED},
     acknowledged : BOOLEAN]

RECURSIVE SeqsUpTo(_, _)
SeqsUpTo(S, n) ==
    IF n = 0 THEN {<<>>}
    ELSE LET shorter == SeqsUpTo(S, n - 1) IN
         shorter \cup {Append(q, x) : q \in shorter, x \in S}

NoReport == [pc |-> "idle", reservations |-> <<>>, results |-> <<>>,
             rows |-> <<>>, outcomes |-> <<>>]

\* --------------------------------------------------------------- guests
\* the fields of a Guest row (checkin/models.py:210-234) the rules on lead
\* guests and identity documents read; support tells whether support_number
\* is set
Guests ==
    [is_lead : BOOLEAN, nationality : {"ES", "FR"},
     document_type : {"passport", "dni", "nie"}, support : BOOLEAN]

NoParty == [total |-> 0, guests |-> <<>>]

\* the concurrent add-guest requests, and the value of one that is not
\* between its check and its insert
Adders == 1..NumAdders
NoGuest == [pc |-> "idle"]

\* CompleteCheckInSerializer.validate (checkin/serializers.py:222-242);
\* guardiansOk: every minor has a guardian
CompleteValidate(guests, total, guardiansOk) ==
    /\ Len(guests) = total
    /\ \E i \in 1..Len(guests) : guests[i].is_lead
    /\ guardiansOk

\* the persona element _generate_guest_xml emits for a guest
\* (checkin/utills.py:75-92)
Persona(g) ==
    [rol |-> IF g.is_lead THEN "VI" ELSE "VG",
     tipoDocumento |-> CASE g.document_type = "passport" -> "PAS"
                         [] g.document_type = "dni" -> "NIF"
                         [] g.document_type = "nie" -> "NIE"
                         [] OTHER -> "OTR",
     soporteDocumento |-> g.support,
     nacionalidad |-> g.nationality]

\* ------------------------------------------------------ document builder
\* the attributes of Reservation (checkin/models.py:68-123) and of Guest
\* (checkin/models.py:211-247) that exist, among those the builder reads
ReservationAttributes ==
    {"reservation_code", "check_in_date", "check_out_date", "lead_guest_email",
     "total_guests"}
GuestAttributes ==
    {"is_lead", "first_name", "last_name", "last_name2", "document_type",
     "document_number", "support_number", "date_of_birth", "nationality", "gender",
     "street_address", "codigo_postal", "municipality", "country_of_residence",
     "phone_number"}

\* check_in.guests.all() under Guest.Meta.ordering (checkin/models.py:286-287):
\* lead guests first, then by creation time
GuestsInOrder(guests) ==
    SelectSeq(guests, LAMBDA g : g.is_lead) \o SelectSeq(guests, LAMBDA g : ~g.is_lead)

\* SESHospedajesService._generate_guest_xml (checkin/utills.py:58-108): an
\* attribute the model class does not define raises AttributeError, in the
\* contract part (reservation.guest_count, line 72) or in the first persona
\* (guest.address, line 98; guest.phone, line 105)
GenerateGuestXml(guests) ==
    IF "guest_count" \notin ReservationAttributes
    THEN [raised |-> TRUE, personas |-> <<>>]
    ELSE IF guests # <<>> /\ ~({"address", "phone"} \subseteq GuestAttributes)
    THEN [raised |-> TRUE, personas |-> <<>>]
    ELSE [raised |-> FALSE,
          personas |-> [i \in 1..Len(guests) |-> Persona(GuestsInOrder(guests)[i])]]

NoDoc == <<>>

\* ------------------------------------------------------------ packaging
\* Text is a sequence of code points, binary data a sequence of bytes.
\* the code points of the documents: "<", "a" and e-acute
XmlChars == {60, 97, 233}

\* str.encode('utf-8'), for code points below 2048
RECURSIVE Utf8Encode(_)
Utf8Encode(text) ==
    IF text = <<>> THEN <<>>
    ELSE LET c == Head(text) IN
         (IF c < 128 THEN <<c>> ELSE <<192 + (c \div 64), 128 + (c % 64)>>)
            \o Utf8Encode(Tail(text))

\* bytes.decode('ascii')
AsciiDecode(bytes) == bytes

\* the character of the Base64 alphabet with index i; 64 is the padding "="
B64Char(i) ==
    IF i < 26 THEN 65 + i
    ELSE IF i < 52 THEN 97 + (i - 26)
    ELSE IF i < 62 THEN 48 + (i - 52)
    ELSE IF i = 62 THEN 43
    ELSE IF i = 63 THEN 47
    ELSE 61

\* base64.b64encode
RECURSIVE B64Encode(_)
B64Encode(bytes) ==
    IF bytes = <<>> THEN <<>>
    ELSE IF Len(bytes) = 1
    THEN LET n == bytes[1] * 65536 IN
         <<B64Char(n \div 262144), B64Char((n \div 4096) % 64), B64Char(64), B64Char(64)>>
    ELSE IF Len(bytes) = 2
    THEN LET n == bytes[1] * 65536 + bytes[2] * 256 IN
         <<B64Char(n \div 262144), B64Char((n \div 4096) % 64),
           B64Char((n \div 64) % 64), B64Char(64)>>
    ELSE LET n == bytes[1] * 65536 + bytes[2] * 256 + bytes[3] IN
         <<B64Char(n \div 262144), B64Char((n \div 4096) % 64),
           B64Char((n \div 64) % 64), B64Char(n % 64)>>
            \o B64Encode(SubSeq(bytes, 4, Len(bytes)))

\* the name of the archive entry, 'parte.xml'
EntryName == <<112, 97, 114, 116, 101, 46, 120, 109, 108>>

\* the compressed form of the entry's data, as runs <<length, byte>>
RECURSIVE RunLength(_, _)
RunLength(data, b) ==
    IF data = <<>> \/ Head(data) # b THEN 0 ELSE 1 + RunLength(Tail(data), b)

RECURSIVE Deflate(_)
Deflate(data) ==
    IF data = <<>> THEN <<>>
    ELSE LET k == RunLength(data, Head(data)) IN
         <<k, Head(data)>> \o Deflate(SubSeq(data, k + 1, Len(data)))

\* zipfile.ZipFile(buffer, 'w', ZIP_DEFLATED).writestr(name, data): the
\* archive is its signature, the entry's name and the compressed data
ZipArchive(name, data) == <<80, 75, Len(name)>> \o name \o Deflate(data)

\* SESHospedajesService._zip_and_encode_xml (checkin/utills.py:47-56)
ZipAndEncodeXml(xml_content) ==
    AsciiDecode(B64Encode(ZipArchive(EntryName, Utf8Encode(xml_content))))

\* SESHospedajesService._create_soap_envelope (checkin/utills.py:25-45): the
\* operation type and the blob placed in <solicitud>
CreateSoapEnvelope(operation_type, xml_content) ==
    [tipoOperacion |-> operation_type, solicitud |-> ZipAndEncodeXml(xml_content)]

NoPack == [path |-> "none", xml |-> <<>>,
           envelope |-> [tipoOperacion |-> "", solicitud |-> <<>>]]

\* ----------------------------------------------------------------- state
\* ------------------------------------------------ completion with amounts
\* Reservation.reservation_amount is a nullable DecimalField, amount_paid a
\* DecimalField (checkin/models.py:77-78); amounts are whole currency units
Amounts ==
    {[null |-> TRUE, v |-> 0]} \cup {[null |-> FALSE, v |-> n] : n \in 0..MaxAmount}

\* Reservation.outstanding_amount (checkin/models.py:118-123): the literal
\* 0.00 is a float, and max(0.00, d) returns d only when d > 0.00
Outstanding(amount, paid) ==
    IF amount.null THEN [float |-> TRUE, v |-> 0]
    ELSE IF amount.v - paid > 0 THEN [float |-> FALSE, v |-> amount.v - paid]
    ELSE [float |-> TRUE, v |-> 0]

\* validated selected_upsells_data of one request: no upsell, or one active
\* upsell with its quantity (IntegerField(min_value=1),
\* checkin/serializers.py:125-134) and the price of the Upsell row
\* (payment/models.py:223, a DecimalField without validators)
UpsellOrders ==
    {[rows |-> 0, price |-> 0, quantity |-> 1]} \cup
    [rows : {1}, price : (-1)..MaxAmount, quantity : 1..2]

\* the lookup by the validated Upsell instance, which always finds the row
UpsellLookupByInstance(order) == FALSE

\* Upsell.objects.get(id=upsell_data.get('upsell_id'), is_active=True)
\* (checkin/views.py:230-243): the write serializer declares upsell_id with
\* source='upsell', so the validated item has no key 'upsell_id', the id is
\* None, and the lookup raises DoesNotExist for every selected upsell
UpsellLookupFails(order) == order.rows > 0

\* upsell_total_amount (checkin/views.py:228-243)
UpsellTotal(order) == order.rows * order.price * order.quantity

NoRequest ==
    [result |-> "none", before |-> "none", payable |-> FALSE, due |-> 0, upsell |-> 0, paid |-> 0, fullyPaid |-> FALSE,
     upsells |-> 0, rels |-> 0, queued |-> 0, charged |-> FALSE]

NoStay ==
    [open |-> FALSE, amount |-> [null |-> TRUE, v |-> 0], paid |-> 0,
     fullyPaid |-> FALSE, upsells |-> 0, rels |-> 0, charges |-> 0,
     last |-> NoRequest]

\* ------------------------------------------------------- Stripe webhooks
\* the invoice object of an event: its id and its subscription, which is
\* absent, the id of the landlord's subscription, or an id no
\* LandlordSubscription row has
Invoices == [id : 1..MaxInvoices, subscription : {"none", "known", "unknown"}]

\* dict.get(key): None for a key the object does not have
InvoiceGet(invoice, key) == IF key \in DOMAIN invoice THEN invoice[key] ELSE "none"

\* the key handle_invoice_paid reads (payment/services/stripe_service.py:687)
PaidSubscriptionKey == "subscriotion"

\* next_retry_date - now in days for the given number of earlier failures,
\* 0 for None (stripe_service.py:749-755)
NextRetryDays(payment_failures) ==
    IF payment_failures = 0 THEN 3
    ELSE IF payment_failures = 1 THEN 5
    ELSE IF payment_failures = 2 THEN 7
    ELSE 0

NoSub ==
    [open |-> FALSE, status |-> "trialing", failures |-> <<>>,
     invoices |-> [i \in 1..MaxInvoices |-> "none"],
     last |-> [type |-> "none", before |-> "none", known |-> FALSE]]

IdleTask == [pc |-> "idle", msg |-> Message(0, "none", 0, 0, 0, TRUE),
             resp |-> NoResp, res |-> "none"]

Init ==
    /\ ciStatus = CheckInStatus.IN_PROGRESS
    /\ resStatus = ReservationStatus.CONFIRMED
    /\ autoSubmit \in BOOLEAN
    /\ pastCheckout = FALSE
    /\ logs = <<>>
    /\ queue = {}
    /\ tw = [w \in Workers |-> IdleTask]
    /\ dw = [d \in DailyWorkers |-> "idle"]
    /\ complete = [http |-> 0, sched |-> "none"]
    /\ hist = [applied |-> 0, dailyRuns |-> 0, manual |-> 0]
    /\ sched = NoSchedule
    /\ report = NoReport
    /\ party = NoParty
    /\ pack = NoPack
    /\ doc = NoDoc
    /\ adding = [r \in Adders |-> NoGuest]
    /\ stay = NoStay
    /\ sub = NoSub

\* the row lock taken by select_for_update (tasks.py:29-30) is held by a
\* worker from its start until its atomic block ends
LockFree == \A w \in Workers : tw[w].pc # "sending"

\* the ledger is followed up to MaxRows rows
Room(k) == Len(logs) + k <= MaxRows

Bump(field) == [hist EXCEPT ![field] = @ + 1]

\* ------------------------------------------------- CompleteCheckInView
\* CompleteCheckInView.create (checkin/views.py:212-325).  Inputs:
\*   valid    CompleteCheckInSerializer.validate accepts the request
\*   needPay  the reservation has an outstanding amount, so that
\*            total_amount_for_payment is a positive Decimal; otherwise
\*            outstanding_amount is the float 0.00 (models.py:118-123)
\*   token    a payment token was supplied
\*   payOk    PaymentService.process_payment succeeds
\*   schedOk  submit_ses_report.apply_async succeeds
\*   mailOk   send_police_submission_notification succeeds
CompleteCheckIn(valid, needPay, token, payOk, schedOk, mailOk) ==
    /\ UNCHANGED auxVars
    /\ ciStatus = CheckInStatus.IN_PROGRESS
    /\ LockFree
    /\ UNCHANGED <<resStatus, autoSubmit, pastCheckout, logs, tw, dw, hist>>
    /\ IF ~valid
       THEN /\ complete' = [http |-> 400, sched |-> "none"]
            /\ UNCHANGED <<ciStatus, queue>>
       ELSE IF ~needPay
       THEN \* float + Decimal raises TypeError (views.py:245): rolled back
            /\ complete' = [http |-> 500, sched |-> "none"]
            /\ UNCHANGED <<ciStatus, queue>>
       ELSE IF ~token
       THEN /\ ciStatus' = CheckInSave(CheckInStatus.PAYMENT_PENDING)
            /\ complete' = [http |-> 402, sched |-> "none"]
            /\ UNCHANGED queue
       ELSE IF ~payOk
       THEN \* ValidationError inside transaction.atomic: rolled back
            /\ complete' = [http |-> 400, sched |-> "none"]
            /\ UNCHANGED <<ciStatus, queue>>
       ELSE IF ~autoSubmit
       THEN /\ ciStatus' = CheckInSave(CheckInStatus.COMPLETED)
            /\ complete' = [http |-> 200, sched |-> "none"]
            /\ UNCHANGED queue
       ELSE IF schedOk
       THEN /\ ciStatus' = CheckInSave(CheckInStatus.COMPLETED)
            /\ queue' = queue \cup {Message(0, "complete", 0, 0, 0, TRUE)}
            /\ complete' = [http |-> 200, sched |-> "ok"]
       ELSE IF mailOk
       THEN \* apply_async raised; the owner is notified (views.py:321-323)
            /\ ciStatus' = CheckInSave(CheckInStatus.COMPLETED)
            /\ complete' = [http |-> 200, sched |-> "failed"]
            /\ UNCHANGED queue
       ELSE \* the notification raises inside transaction.atomic: rolled back
            /\ complete' = [http |-> 500, sched |-> "failed"]
            /\ UNCHANGED <<ciStatus, queue>>

\* submit_ses_report.apply_async by any other producer: the task is a
\* registered entry point (tasks.py:15-23)
ApplyAsync ==
    /\ UNCHANGED auxVars
    /\ hist.applied < MaxApply
    /\ queue' = queue \cup {Message(0, "direct", hist.applied + 1, 0, 0, TRUE)}
    /\ hist' = Bump("applied")
    /\ UNCHANGED <<ciStatus, resStatus, autoSubmit, pastCheckout, logs, tw, dw, complete>>

\* --------------------------------------------------- submit_ses_report
\* tasks.py:28-53: lock the row, skip a completed check-in, build, package,
\* and start the POST.  The guests and the service settings are not part of
\* the state, so whether the document can be built and packaged is an input:
\* stage is "ok", or the step of tasks.py:35-42 that raises.
TaskStart(w, m, stage) ==
    /\ UNCHANGED auxVars
    /\ tw[w].pc = "idle"
    /\ m \in queue
    /\ LockFree
    /\ queue' = queue \ {m}
    /\ UNCHANGED <<ciStatus, resStatus, autoSubmit, pastCheckout, logs, dw, complete, hist>>
    /\ IF ciStatus = CheckInStatus.COMPLETED
       THEN tw' = [tw EXCEPT ![w] = IdleTask]
       ELSE IF stage # "ok"
       THEN tw' = [tw EXCEPT ![w] = [pc |-> "handler", msg |-> m, resp |-> NoResp,
                                     res |-> stage]]
       ELSE tw' = [tw EXCEPT ![w] = [pc |-> "sending", msg |-> m, resp |-> NoResp,
                                     res |-> "none"]]

\* the same without the atomic block: what _handle_response wrote before the
\* attempt raised stays in the ledger
TaskResponseNoRollback(w, resp, mailOk) ==
    /\ UNCHANGED auxVars
    /\ tw[w].pc = "sending"
    /\ UNCHANGED <<resStatus, autoSubmit, pastCheckout, queue, dw, complete, hist>>
    /\ LET r == HandleResponse(resp)
           fail(res, rows) ==
               /\ tw' = [tw EXCEPT ![w] = [@ EXCEPT !.pc = "handler",
                                            !.resp = resp, !.res = res]]
               /\ Room(Len(rows))
               /\ logs' = logs \o rows
               /\ UNCHANGED ciStatus
       IN
       IF resp = PostRaised THEN fail("post_raised", <<>>)
       ELSE IF r.raised THEN fail("raised", r.rows)
       ELSE IF ~r.success THEN fail(r.error, r.rows)
       ELSE IF ~mailOk THEN fail("notify_raised", r.rows)
       ELSE /\ Room(Len(r.rows) + 1)
            /\ ciStatus' = CheckInSave(CheckInStatus.COMPLETED)
            /\ logs' = logs \o r.rows \o
                          <<LogRow(SubmissionStatus.SUBMITTED, tw[w].msg.retries, "")>>
            /\ tw' = [tw EXCEPT ![w] = IdleTask]

\* tasks.py:54-77: the POST returns or raises, the response is handled, and
\* the atomic block commits or rolls back
TaskResponse(w, resp, mailOk) ==
    /\ UNCHANGED auxVars
    /\ tw[w].pc = "sending"
    /\ UNCHANGED <<resStatus, autoSubmit, pastCheckout, queue, dw, complete, hist>>
    /\ LET r == HandleResponse(resp)
           fail(res) == /\ tw' = [tw EXCEPT ![w] = [@ EXCEPT !.pc = "handler",
                                                     !.resp = resp, !.res = res]]
                        /\ UNCHANGED <<ciStatus, logs>>
       IN
       IF resp = PostRaised THEN fail("post_raised")
       ELSE IF r.raised THEN fail("raised")
       ELSE IF ~r.success THEN fail(r.error)
       ELSE IF ~mailOk THEN fail("notify_raised")
       ELSE /\ Room(Len(r.rows) + 1)
            /\ ciStatus' = CheckInSave(CheckInStatus.COMPLETED)
            /\ logs' = logs \o r.rows \o
                          <<LogRow(SubmissionStatus.SUBMITTED, tw[w].msg.retries, "")>>
            /\ tw' = [tw EXCEPT ![w] = IdleTask]

\* the failures the pipeline's design calls transport failures
TransportFailures == {"post_raised", "http_error"}

\* tasks.py:83-100: the failure handler, run after the rollback.  The
\* notification's own failure is caught and logged (tasks.py:98-99).
TaskHandler(w, mailOk) ==
    /\ UNCHANGED auxVars
    /\ tw[w].pc = "handler"
    /\ LockFree
    /\ Room(1)
    /\ UNCHANGED <<resStatus, autoSubmit, pastCheckout, dw, complete, hist>>
    /\ ciStatus' = CheckInSave(CheckInStatus.FAILED)
    /\ logs' = Append(logs, LogRow(SubmissionStatus.FAILED, tw[w].msg.retries, "error"))
    /\ tw' = [tw EXCEPT ![w] = IdleTask]
    /\ IF tw[w].msg.retries + 1 > MaxRetries
       THEN queue' = queue
       ELSE queue' = queue \cup
                {Message(tw[w].msg.retries + 1, tw[w].msg.origin, tw[w].msg.n,
                         RetryCountdown(tw[w].msg.retries),
                         tw[w].msg.notified + 1,
                         tw[w].msg.transport /\ tw[w].res \in TransportFailures)}

\* ------------------------------------------------------- daily report
\* SESHospedajesService.submit_check_in (checkin/utills.py:119-149), from the
\* POST outcome on: the rows it writes and the dictionary it returns
SubmitCheckInResult(resp) ==
    LET r == HandleResponse(resp)
        caught == LogSubmission(FALSE, "SES submission failed")
    IN
    IF resp = PostRaised
    THEN [rows |-> caught.rows, success |-> FALSE, error |-> "error"]
    ELSE IF r.raised
    THEN [rows |-> r.rows \o caught.rows, success |-> FALSE, error |-> "error"]
    ELSE [rows |-> r.rows, success |-> r.success,
          error |-> IF r.success THEN "" ELSE "error"]

\* the row the view adds for the result (checkin/views.py:586-593)
DailyRow(result) ==
    LogRow(IF result.success THEN SubmissionStatus.ACKNOWLEDGED
                             ELSE SubmissionStatus.FAILED, 0, result.error)

HasAcknowledged ==
    \E i \in 1..Len(logs) : logs[i].status = SubmissionStatus.ACKNOWLEDGED

\* DailyPoliceReportAPIView.post (checkin/views.py:549-585) for the
\* reservation, up to the POST made by submit_check_in
DailyStart(d, stage) ==
    /\ UNCHANGED auxVars
    /\ dw[d] = "idle"
    /\ hist.dailyRuns < MaxDailyRuns
    /\ hist' = Bump("dailyRuns")
    /\ UNCHANGED <<ciStatus, resStatus, autoSubmit, pastCheckout, queue, tw, complete>>
    /\ IF ~(autoSubmit /\ resStatus = ReservationStatus.CONFIRMED)
       THEN UNCHANGED <<dw, logs>>
       ELSE IF ciStatus # CheckInStatus.COMPLETED
       THEN UNCHANGED <<dw, logs>>
       ELSE IF HasAcknowledged
       THEN UNCHANGED <<dw, logs>>
       ELSE IF stage # "ok"
       THEN LET result == [rows |-> LogSubmission(FALSE, stage).rows,
                           success |-> FALSE, error |-> "error"] IN
            /\ Room(Len(result.rows) + 1)
            /\ logs' = logs \o result.rows \o <<DailyRow(result)>>
            /\ UNCHANGED dw
       ELSE /\ dw' = [dw EXCEPT ![d] = "sending"]
            /\ UNCHANGED logs

\* checkin/views.py:585-598 once the POST has returned or raised
DailyResponse(d, resp) ==
    /\ UNCHANGED auxVars
    /\ dw[d] = "sending"
    /\ UNCHANGED <<ciStatus, resStatus, autoSubmit, pastCheckout, queue, tw, complete, hist>>
    /\ LET result == SubmitCheckInResult(resp) IN
       /\ Room(Len(result.rows) + 1)
       /\ logs' = logs \o result.rows \o <<DailyRow(result)>>
       /\ dw' = [dw EXCEPT ![d] = "idle"]

\* ------------------------------------------------------- manual retry
\* PoliceSubmissionRetryAPIView.post (checkin/views.py:412-436)
ManualRetry(i) ==
    /\ UNCHANGED auxVars
    /\ i \in 1..Len(logs)
    /\ hist.manual < MaxManual
    /\ hist' = Bump("manual")
    /\ UNCHANGED <<ciStatus, resStatus, autoSubmit, pastCheckout, queue, tw, dw, complete>>
    /\ IF logs[i].status = SubmissionStatus.ACKNOWLEDGED
       THEN UNCHANGED logs
       ELSE IF "retry_submission" \notin ServiceMethods
       THEN \* AttributeError, caught by the view
            logs' = [logs EXCEPT ![i] = [@ EXCEPT !.status = SubmissionStatus.FAILED,
                                                  !.error = "attribute_error"]]
       ELSE UNCHANGED logs

\* -------------------------------------------------------- environment
\* the reservation is cancelled (Reservation.status, checkin/models.py:80)
CancelReservation ==
    /\ UNCHANGED auxVars
    /\ resStatus = ReservationStatus.CONFIRMED
    /\ resStatus' = ReservationStatus.CANCELLED
    /\ UNCHANGED <<ciStatus, autoSubmit, pastCheckout, logs, queue, tw, dw, complete, hist>>

\* the check-out time passes (CheckIn.is_expired, checkin/models.py:162-164)
CheckOutPasses ==
    /\ UNCHANGED auxVars
    /\ ~pastCheckout
    /\ pastCheckout' = TRUE
    /\ UNCHANGED <<ciStatus, resStatus, autoSubmit, logs, queue, tw, dw, complete, hist>>

Stages == {"ok", "build_error", "package_error"}

Next ==
    \/ \E valid, needPay, token, payOk, schedOk, mailOk \in BOOLEAN :
          CompleteCheckIn(valid, needPay, token, payOk, schedOk, mailOk)
    \/ ApplyAsync
    \/ \E w \in Workers, m \in queue, stage \in Stages : TaskStart(w, m, stage)
    \/ \E w \in Workers, resp \in PostOutcomes, mailOk \in BOOLEAN : TaskResponse(w, resp, mailOk)
    \/ \E w \in Workers, mailOk \in BOOLEAN : TaskHandler(w, mailOk)
    \/ \E d \in DailyWorkers, stage \in Stages : DailyStart(d, stage)
    \/ \E d \in DailyWorkers, resp \in PostOutcomes : DailyResponse(d, resp)
    \/ \E i \in 1..Len(logs) : ManualRetry(i)
    \/ CancelReservation
    \/ CheckOutPasses

Spec == Init /\ [][Next]_vars

\* ---------------------------------------------------- scheduling requests
pipelineVars == <<ciStatus, resStatus, autoSubmit, pastCheckout, logs, queue, tw,
                  dw, complete, hist>>

\* CompleteCheckInView.create for a reservation with is_auto_submit, from the
\* scheduling block on (checkin/views.py:301-318): the etas it passes to
\* submit_ses_report.apply_async
ScheduleAtCompletion(now, a, offset) ==
    /\ autoSubmit
    /\ sched' = [path |-> "complete", now |-> now, arrival |-> a, offset |-> offset,
                 etas |-> <<CompleteEta(now, StoredInstant(a, offset), offset)>>]
    /\ UNCHANGED <<pipelineVars, report, party, pack, doc, adding, stay, sub>>

\* CheckInCreateAPIView.create for a reservation with is_auto_submit, from
\* its atomic block on (checkin/views.py:362-388): serializer.save runs
\* CheckInSerializer.create, which schedules the task, and the view then
\* schedules it again
ScheduleAtCreate(now, a, offset) ==
    /\ autoSubmit
    /\ sched' = [path |-> "create", now |-> now, arrival |-> a, offset |-> offset,
                 etas |-> <<SerializerEta(now, StoredInstant(a, offset), offset),
                            CreateEta(now, StoredInstant(a, offset), offset)>>]
    /\ UNCHANGED <<pipelineVars, report, party, pack, doc, adding, stay, sub>>

SchedulingNext ==
    \/ \E now \in NowTimes, a \in Arrivals, offset \in Offsets :
          ScheduleAtCompletion(now, a, offset)
    \/ \E now \in NowTimes, a \in Arrivals, offset \in Offsets :
          ScheduleAtCreate(now, a, offset)

SchedulingSpec == Init /\ [][SchedulingNext]_vars

\* -------------------------------------------- daily report over a queryset
\* DailyPoliceReportAPIView.post up to the loop (checkin/views.py:549-567)
DailyReportBegin(reservations) ==
    /\ report.pc = "idle"
    /\ report' = [NoReport EXCEPT !.pc = "loop", !.reservations = reservations]
    /\ UNCHANGED <<pipelineVars, sched, party, pack, doc, adding, stay, sub>>

\* one iteration of the loop (checkin/views.py:568-610) and, after the last
\* one, the response (views.py:612).  report.rows holds the ledger rows the
\* iteration wrote; report.outcomes what happened to the submission:
\* "none", "acknowledged_before", "not_sent", "accepted" or "rejected".
DailyReportStep(stage, resp) ==
    /\ report.pc = "loop"
    /\ UNCHANGED <<pipelineVars, sched, party, pack, doc, adding, stay, sub>>
    /\ LET i == Len(report.results) + 1
           last(r) == IF Len(r.results) = Len(r.reservations)
                      THEN [r EXCEPT !.pc = "done"] ELSE r
           entry(ok, rows, outcome) ==
               last([report EXCEPT
                       !.results = Append(@, [reservation |-> i, success |-> ok]),
                       !.rows = Append(@, rows),
                       !.outcomes = Append(@, outcome)])
       IN
       IF i > Len(report.reservations)
       THEN report' = [report EXCEPT !.pc = "done"]
       ELSE IF report.reservations[i].checkin # CheckInStatus.COMPLETED
       THEN report' = entry(FALSE, <<>>, "none")
       ELSE IF report.reservations[i].acknowledged
       THEN report' = entry(TRUE, <<>>, "acknowledged_before")
       ELSE IF stage # "ok"
       THEN LET result == [rows |-> LogSubmission(FALSE, stage).rows,
                           success |-> FALSE, error |-> "error"] IN
            report' = entry(FALSE, result.rows \o <<DailyRow(result)>>, "not_sent")
       ELSE LET result == SubmitCheckInResult(resp) IN
            report' = entry(result.success, result.rows \o <<DailyRow(result)>>,
                            IF Ok200(resp) THEN "accepted" ELSE "rejected")

DailyReportNext ==
    \/ \E reservations \in SeqsUpTo(SelectedReservations, MaxReservations) :
          DailyReportBegin(reservations)
    \/ \E stage \in Stages, resp \in PostOutcomes : DailyReportStep(stage, resp)

DailyReportSpec == Init /\ [][DailyReportNext]_vars

\* ------------------------------------------------------- guest requests
\* the reservation is created with its declared number of guests
\* (Reservation.total_guests, checkin/models.py:76)
ReservationCreated(total) ==
    /\ party.total = 0
    /\ party' = [party EXCEPT !.total = total]
    /\ UNCHANGED <<pipelineVars, sched, report, pack, doc, adding, stay, sub>>

\* GuestListCreateView.create (checkin/views.py:128-155); SingleGuestSerializer
\* (checkin/serializers.py:175-213) defines no validate method
AddGuest(g) ==
    /\ party.total > 0
    /\ ciStatus = CheckInStatus.IN_PROGRESS
    /\ resStatus = ReservationStatus.CONFIRMED
    /\ Len(party.guests) < party.total
    /\ party' = [party EXCEPT !.guests = Append(@, g)]
    /\ UNCHANGED <<pipelineVars, sched, report, pack, doc, adding, stay, sub>>

\* GuestRetrieveUpdateView.update (checkin/views.py:172-193)
UpdateGuest(i, g) ==
    /\ ciStatus = CheckInStatus.IN_PROGRESS
    /\ i \in 1..Len(party.guests)
    /\ party' = [party EXCEPT !.guests[i] = g]
    /\ UNCHANGED <<pipelineVars, sched, report, pack, doc, adding, stay, sub>>

\* CompleteCheckInView.create with the serializer's validation computed from
\* the Guest rows
CompleteWithGuests(guardiansOk, needPay, token, payOk, schedOk, mailOk) ==
    /\ party.total > 0
    /\ CompleteCheckIn(CompleteValidate(party.guests, party.total, guardiansOk),
                       needPay, token, payOk, schedOk, mailOk)

GuestNext ==
    \/ \E total \in 1..MaxGuests : ReservationCreated(total)
    \/ \E g \in Guests : AddGuest(g)
    \/ \E i \in 1..Len(party.guests), g \in Guests : UpdateGuest(i, g)
    \/ \E guardiansOk, needPay, token, payOk, schedOk, mailOk \in BOOLEAN :
          CompleteWithGuests(guardiansOk, needPay, token, payOk, schedOk, mailOk)

GuestSpec == Init /\ [][GuestNext]_vars

\* ------------------------------------------- completion request, amounts
\* a reservation with its amounts and an IN_PROGRESS check-in
\* (checkin/serializers.py:395-449 creates the check-in)
ReservationPriced(amount, paid) ==
    /\ ~stay.open
    /\ stay' = [NoStay EXCEPT !.open = TRUE, !.amount = amount, !.paid = paid]
    /\ UNCHANGED <<pipelineVars, sched, report, party, pack, doc, adding, sub>>

\* CompleteCheckInView.create (checkin/views.py:200-325) with the amounts
\* computed.  rels is the number of guardian relationships in the request;
\* the other inputs are those of CompleteCheckIn.  stay.last keeps what was
\* stored before the request, its amounts, and whether it was valid with a
\* payment token whose payment succeeds (payable).
CompleteWithAmounts(valid, rels, order, token, payOk, schedOk, mailOk) ==
    /\ stay.open
    /\ LockFree
    /\ UNCHANGED <<resStatus, autoSubmit, pastCheckout, logs, tw, dw, hist>>
    /\ UNCHANGED <<sched, report, party, pack, doc, adding, sub>>
    /\ LET due == Outstanding(stay.amount, stay.paid)
           upsell == UpsellTotal(order)
           total == due.v + upsell
           needPay == total > 0
           request(result, charged) ==
               [result |-> result, before |-> ciStatus,
                payable |-> valid /\ token /\ payOk, due |-> due.v, upsell |-> upsell,
                paid |-> stay.paid, fullyPaid |-> stay.fullyPaid,
                upsells |-> stay.upsells, rels |-> stay.rels,
                queued |-> Cardinality(queue), charged |-> charged]
           \* nothing is stored: refused before the atomic block, or rolled back
           refuse(http, result, charged) ==
               /\ complete' = [http |-> http, sched |-> "none"]
               /\ stay' = [stay EXCEPT !.last = request(result, charged),
                                       !.charges = IF charged THEN @ + 1 ELSE @]
               /\ UNCHANGED <<ciStatus, queue>>
           \* the atomic block commits with the check-in COMPLETED
           done(schedResult) ==
               /\ ciStatus' = CheckInSave(CheckInStatus.COMPLETED)
               /\ complete' = [http |-> 200, sched |-> schedResult]
               /\ stay' = [stay EXCEPT
                             !.paid = IF total >= due.v THEN @ + due.v ELSE @ + total,
                             !.fullyPaid = total >= due.v,
                             !.upsells = @ + order.rows,
                             !.rels = @ + rels,
                             !.charges = IF needPay THEN @ + 1 ELSE @,
                             !.last = request("completed", needPay)]
       IN
       IF ciStatus # CheckInStatus.IN_PROGRESS
       THEN \* get_object_or_404 (views.py:205-209)
            refuse(404, "not_found", FALSE)
       ELSE IF ~valid THEN refuse(400, "invalid", FALSE)
       ELSE IF UpsellLookupFails(order)
       THEN \* ValidationError inside the atomic block (views.py:242-243)
            refuse(400, "bad_upsell", FALSE)
       ELSE IF due.float
       THEN \* float + Decimal raises TypeError (views.py:245)
            refuse(500, "type_error", FALSE)
       ELSE IF needPay /\ ~token
       THEN /\ ciStatus' = CheckInSave(CheckInStatus.PAYMENT_PENDING)
            /\ complete' = [http |-> 402, sched |-> "none"]
            /\ stay' = [stay EXCEPT !.upsells = @ + order.rows, !.rels = @ + rels,
                                    !.last = request("payment_required", FALSE)]
            /\ UNCHANGED queue
       ELSE IF needPay /\ ~payOk
       THEN \* FAILED is saved and ValidationError raised inside the atomic
            \* block (views.py:272-276)
            refuse(400, "payment_failed", FALSE)
       ELSE /\ needPay => stay.charges < MaxCharges
            /\ IF ~autoSubmit THEN done("none") /\ UNCHANGED queue
               ELSE IF schedOk
               THEN done("ok") /\ queue' = queue \cup {Message(0, "complete", 0, 0, 0, TRUE)}
               ELSE IF mailOk THEN done("failed") /\ UNCHANGED queue
               ELSE refuse(500, "notify_failed", needPay)

CompletionNext ==
    \/ \E amount \in Amounts, paid \in 0..MaxAmount : ReservationPriced(amount, paid)
    \/ \E valid, token, payOk, schedOk, mailOk \in BOOLEAN,
          rels \in 0..1, order \in UpsellOrders :
          CompleteWithAmounts(valid, rels, order, token, payOk, schedOk, mailOk)
    \/ CheckOutPasses

CompletionSpec == Init /\ [][CompletionNext]_vars

\* ------------------------------------------------ Stripe webhook events
\* a LandlordSubscription row: 'trialing' by default, 'active' once paid
\* (payment/models.py:75-99)
SubscriptionStarted(st) ==
    /\ ~sub.open
    /\ sub' = [NoSub EXCEPT !.open = TRUE, !.status = st]
    /\ UNCHANGED <<pipelineVars, sched, report, party, pack, doc, adding, stay>>

\* what an event leaves in sub.last: its type, the status before it, and
\* whether its object named the landlord's subscription
Handled(type, known) == [type |-> type, before |-> sub.status, known |-> known]

\* process_webhook_event for invoice.payment_failed
\* (stripe_service.py:659-682, 717-777)
HandleInvoicePaymentFailed(invoice) ==
    /\ sub.open
    /\ Len(sub.failures) < MaxFailures
    /\ UNCHANGED <<pipelineVars, sched, report, party, pack, doc, adding, stay>>
    /\ LET subscription_id == InvoiceGet(invoice, "subscription")
           payment_failures == Len(sub.failures)
           log == [attempt_number |-> payment_failures + 1,
                   next_retry_days |-> NextRetryDays(payment_failures)]
       IN
       IF subscription_id # "known"
       THEN \* no subscription id, or LandlordSubscription.DoesNotExist
            sub' = [sub EXCEPT !.last = Handled("invoice.payment_failed", FALSE)]
       ELSE sub' = [sub EXCEPT
                      !.invoices[invoice.id] = "failed",
                      !.failures = Append(@, log),
                      !.status = IF payment_failures >= 2 THEN "suspended"
                                 ELSE "past_due",
                      !.last = Handled("invoice.payment_failed", TRUE)]

\* process_webhook_event for invoice.paid (stripe_service.py:659-682, 684-715)
HandleInvoicePaid(invoice) ==
    /\ sub.open
    /\ UNCHANGED <<pipelineVars, sched, report, party, pack, doc, adding, stay>>
    /\ LET subscription_id == InvoiceGet(invoice, PaidSubscriptionKey)
           known == invoice.subscription = "known"
       IN
       IF subscription_id # "known"
       THEN sub' = [sub EXCEPT !.last = Handled("invoice.paid", known)]
       ELSE sub' = [sub EXCEPT
                      !.status = IF @ = "past_due" THEN "active" ELSE @,
                      !.invoices[invoice.id] = "paid",
                      !.last = Handled("invoice.paid", known)]

\* process_webhook_event for customer.subscription.deleted
\* (stripe_service.py:659-682, 779-790)
HandleSubscriptionDeleted(known) ==
    /\ sub.open
    /\ UNCHANGED <<pipelineVars, sched, report, party, pack, doc, adding, stay>>
    /\ IF known
       THEN sub' = [sub EXCEPT !.status = "canceled",
                               !.last = Handled("customer.subscription.deleted", TRUE)]
       ELSE sub' = [sub EXCEPT !.last = Handled("customer.subscription.deleted", FALSE)]

WebhookNext ==
    \/ \E st \in {"trialing", "active"} : SubscriptionStarted(st)
    \/ \E invoice \in Invoices : HandleInvoicePaymentFailed(invoice)
    \/ \E invoice \in Invoices : HandleInvoicePaid(invoice)
    \/ \E known \in BOOLEAN : HandleSubscriptionDeleted(known)

WebhookSpec == Init /\ [][WebhookNext]_vars

\* ---------------------------------------------- concurrent guest requests
\* GuestListCreateView.create up to the count check of perform_create
\* (checkin/views.py:128-137); the queries take no row lock
AddGuestCheck(r, g) ==
    /\ adding[r].pc = "idle"
    /\ party.total > 0
    /\ ciStatus = CheckInStatus.IN_PROGRESS
    /\ resStatus = ReservationStatus.CONFIRMED
    /\ Len(party.guests) < party.total
    /\ adding' = [adding EXCEPT ![r] = [pc |-> "saving", guest |-> g]]
    /\ UNCHANGED <<pipelineVars, sched, report, party, pack, doc, stay, sub>>

\* serializer.save(check_in=checkin) and the commit (checkin/views.py:138-155)
AddGuestSave(r) ==
    /\ adding[r].pc = "saving"
    /\ party' = [party EXCEPT !.guests = Append(@, adding[r].guest)]
    /\ adding' = [adding EXCEPT ![r] = NoGuest]
    /\ UNCHANGED <<pipelineVars, sched, report, pack, doc, stay, sub>>

ConcurrentGuestNext ==
    \/ \E total \in 1..MaxGuests : ReservationCreated(total)
    \/ \E r \in Adders, g \in Guests : AddGuestCheck(r, g)
    \/ \E r \in Adders : AddGuestSave(r)

ConcurrentGuestSpec == Init /\ [][ConcurrentGuestNext]_vars

\* ------------------------------------------------------ builder calls
\* a call of _generate_guest_xml for the check-in, as made by
\* submit_ses_report (checkin/tasks.py:35) and submit_check_in
\* (checkin/utills.py:123)
BuildDocument ==
    /\ party.total > 0
    /\ Len(doc) < MaxCalls
    /\ doc' = Append(doc, [guests |-> party.guests, result |-> GenerateGuestXml(party.guests)])
    /\ UNCHANGED <<pipelineVars, sched, report, party, pack, adding, stay, sub>>

BuilderNext ==
    \/ \E total \in 1..MaxGuests : ReservationCreated(total)
    \/ \E g \in Guests : AddGuest(g)
    \/ BuildDocument

BuilderSpec == Init /\ [][BuilderNext]_vars

\* ---------------------------------------------------------- envelopes
\* submit_ses_report, from the document to the envelope it posts
\* (checkin/tasks.py:36-42)
PackageInTask(xml_content) ==
    /\ LET zip_data == ZipArchive(EntryName, Utf8Encode(xml_content))
           base64_content == AsciiDecode(B64Encode(zip_data))
       IN  pack' = [path |-> "task", xml |-> xml_content,
                    envelope |-> CreateSoapEnvelope("A", base64_content)]
    /\ UNCHANGED <<pipelineVars, sched, report, party, doc, adding, stay, sub>>

\* SESHospedajesService.submit_check_in, from the document to the envelope
\* it posts (checkin/utills.py:123-124)
PackageInService(xml_content) ==
    /\ pack' = [path |-> "service", xml |-> xml_content,
                envelope |-> CreateSoapEnvelope("A", xml_content)]
    /\ UNCHANGED <<pipelineVars, sched, report, party, doc, adding, stay, sub>>

PackagingNext ==
    \/ \E xml_content \in SeqsUpTo(XmlChars, MaxXmlLen) : PackageInTask(xml_content)
    \/ \E xml_content \in SeqsUpTo(XmlChars, MaxXmlLen) : PackageInService(xml_content)

PackagingSpec == Init /\ [][PackagingNext]_vars

\* ======================================================================
\* Claims
\* ======================================================================
AllMessages == queue \cup {tw[w].msg : w \in {v \in Workers : tw[v].pc # "idle"}}

Dup200(resp) == resp.code = 200 /\ resp.body.dup

InFlight ==
    Cardinality({w \in Workers : tw[w].pc = "sending"}) +
    Cardinality({d \in DailyWorkers : dw[d] = "sending"})

\* a task run starts: a message leaves the broker
Fired(m) == m \in queue /\ m \notin queue'

\* C1: for a check-in whose every attempt ended in a transport failure, no
\* 4th call is made to the regulator and no more than one failure
\* notification is sent over the whole sequence of attempts.
C1_ThreeAttemptsOneNotification ==
    /\ \A w \in Workers :
          (tw[w].pc = "sending" /\ tw[w].msg.transport) => tw[w].msg.retries + 1 <= 3
    /\ \A m \in AllMessages : m.transport => m.notified <= 1

\* C2: an attempt of submit_ses_report that received HTTP 200 with the success
\* code in the body ends in terminal success: it never enters the failure
\* handler that marks the check-in Failed and schedules a retry.
C2_SuccessIsTerminal ==
    \A w \in Workers : tw[w].pc = "handler" => ~Ok200(tw[w].resp)

\* C3: when the task enqueued by CompleteCheckInView fires and nothing changed
\* in between (reservation still confirmed, check-out not passed), the run
\* builds the document and goes on to submit it instead of returning.
C3_ScheduledTaskSubmits ==
    [][\A m \in queue :
          (Fired(m) /\ m.origin = "complete" /\ m.retries = 0
              /\ resStatus = ReservationStatus.CONFIRMED /\ ~pastCheckout)
          => \E w \in Workers : tw[w].pc = "idle" /\ tw'[w].pc # "idle"]_vars

\* C4: at no time are two submission calls for the check-in in progress.
C4_OneInFlight == InFlight <= 1

\* C5: once a successful submission has been recorded for the check-in, no
\* later step starts another submission call or adds another ledger row.
SuccessRecorded ==
    \E i \in 1..Len(logs) :
        logs[i].status \in {"success", SubmissionStatus.SUBMITTED,
                            SubmissionStatus.ACKNOWLEDGED}

C5_NothingAfterSuccess ==
    [][SuccessRecorded =>
          /\ Len(logs') = Len(logs)
          /\ \A w \in Workers : tw'[w].pc = "sending" => tw[w].pc = "sending"
          /\ \A d \in DailyWorkers : dw'[d] = "sending" => dw[d] = "sending"]_vars

\* C6: a task that fires after the reservation was cancelled, or after the
\* check-in was marked complete, is a no-op: it sends nothing and changes
\* neither the ledger nor any status.
C6_StaleTaskIsNoOp ==
    [][\A m \in queue :
          (Fired(m) /\ (resStatus = ReservationStatus.CANCELLED
                        \/ ciStatus = CheckInStatus.COMPLETED))
          => (tw' = tw /\ logs' = logs /\ ciStatus' = ciStatus)]_vars

\* C7: a failing owner notification leaves the pipeline's outcome unchanged:
\* a failure to schedule the task does not undo the check-in completion, and
\* no attempt is on the failure path because the notification raised.
C7_NotificationFailureIsHarmless ==
    /\ complete.sched = "failed" => complete.http = 200
    /\ \A w \in Workers : tw[w].res # "notify_raised"

\* C8: after a document-build or packaging error the check-in is Failed and
\* no retry is scheduled.
C8_BuildErrorNotRetried ==
    [][\A w \in Workers :
          (tw[w].pc = "handler" /\ tw[w].res \in {"build_error", "package_error"}
              /\ tw'[w].pc = "idle")
          => (queue' = queue /\ ciStatus' = CheckInStatus.FAILED)]_vars

\* C9: _handle_response returns exactly one of three outcomes: success for
\* HTTP 200 with the success code (so the run is not on the failure path), a
\* domain failure for any other HTTP 200, carrying the code and message the
\* body holds, and a transport failure for any other status.
DomainFailures == {"ses_code_and_message", "error_parsing_response"}

C9_Classification ==
    \A w \in Workers :
        (tw[w].pc = "handler" /\ tw[w].resp \in HttpResponses) =>
            /\ ~Ok200(tw[w].resp)
            /\ (tw[w].resp.code = 200 /\ ~tw[w].resp.body.ok) =>
                   /\ tw[w].res \in DomainFailures
                   /\ tw[w].resp.body.xml = "ns" => tw[w].res = "ses_code_and_message"
            /\ tw[w].resp.code # 200 => tw[w].res = "http_error"

\* C10: an HTTP 200 response carrying code 10121 "Lote duplicado" is treated
\* like the success code: the attempt does not go to the failure handler.
C10_DuplicateIsAcknowledged ==
    \A w \in Workers : tw[w].pc = "handler" => ~Dup200(tw[w].resp)

C12_NinePmDayBefore ==
    LET target == (sched.arrival.day - 1) * MinutesPerDay + TargetMinute - sched.offset
    IN  (sched.path = "complete" /\ sched.now < target) => sched.etas = <<target>>

\* an arrival at 00:30 local in UTC+2, scheduled at 21:00 local the day before
C12_Witness ==
    /\ sched.path = "complete"
    /\ sched.arrival.minute = 30
    /\ sched.offset = 120
    /\ sched.now < (sched.arrival.day - 1) * MinutesPerDay + TargetMinute - sched.offset
    /\ sched.etas = <<(sched.arrival.day - 1) * MinutesPerDay + TargetMinute - 120>>

\* C13: a daily report that runs when the latest submission attempt of the
\* check-in was successful (recorded by the task or by an earlier daily
\* report) starts no submission call and adds no ledger row.
LatestAttemptSucceeded ==
    LET n == Len(logs) IN
    \/ n >= 1 /\ logs[n].status \in {SubmissionStatus.SUBMITTED,
                                     SubmissionStatus.ACKNOWLEDGED}
    \/ n >= 3 /\ logs[n - 2].status = "success"

C13_DailySkipsSuccessful ==
    [][(LatestAttemptSucceeded /\ hist'.dailyRuns # hist.dailyRuns)
          => (dw' = dw /\ logs' = logs)]_vars

\* C14: when the daily report responds, it holds exactly one result entry for
\* every selected reservation, in order, whatever happened to the others,
\* and an entry's success flag tells whether that check-in's submission was
\* accepted (now or by an earlier acknowledged submission).
C14_OneEntryPerReservation ==
    report.pc = "done" =>
        /\ Len(report.results) = Len(report.reservations)
        /\ \A i \in 1..Len(report.results) :
              /\ report.results[i].reservation = i
              /\ report.results[i].success <=>
                    report.outcomes[i] \in {"accepted", "acknowledged_before"}

C16_RetryingThenFailed ==
    [][\A w \in Workers :
          (tw[w].pc = "handler" /\ tw'[w].pc = "idle" /\ tw[w].res = "post_raised")
          => /\ Len(logs') = Len(logs) + 1
             /\ IF tw[w].msg.retries + 1 < 3
                THEN /\ logs'[Len(logs')].status = SubmissionStatus.RETRYING
                     /\ ciStatus' # CheckInStatus.FAILED
                ELSE logs'[Len(logs')].status = SubmissionStatus.FAILED]_vars

\* C17: a check-in that completion accepted, or for which a submission is
\* scheduled, has exactly one guest flagged as lead and as many guests as
\* the reservation declares.
LeadGuests == {i \in 1..Len(party.guests) : party.guests[i].is_lead}

C17_OneLeadAndFullParty ==
    (ciStatus = CheckInStatus.COMPLETED \/ queue # {}) =>
        /\ Cardinality(LeadGuests) = 1
        /\ Len(party.guests) = party.total

\* C18: no guest with a DNI/NIE document and no support number, and no
\* non-Spanish guest with a document other than a passport, is ever stored
\* for the check-in, so the document builder emits no person element for one.
BadDocument(g) ==
    \/ g.document_type \in {"dni", "nie"} /\ ~g.support
    \/ g.nationality # "ES" /\ g.document_type # "passport"

C18_BadDocumentsRejected ==
    \A i \in 1..Len(party.guests) :
        /\ ~BadDocument(party.guests[i])
        /\ ~(Persona(party.guests[i]).tipoDocumento \in {"NIF", "NIE"}
             /\ ~Persona(party.guests[i]).soporteDocumento)

\* C19: Base64-decoding the blob of the envelope that is sent and extracting
\* the archive's single entry yields exactly the bytes of the XML document,
\* for the envelope of submit_ses_report and for that of submit_check_in.
B64Index(c) ==
    IF c >= 65 /\ c <= 90 THEN c - 65
    ELSE IF c >= 97 /\ c <= 122 THEN c - 71
    ELSE IF c >= 48 /\ c <= 57 THEN c + 4
    ELSE IF c = 43 THEN 62
    ELSE 63

RECURSIVE B64Decode(_)
B64Decode(chars) ==
    IF Len(chars) < 4 THEN <<>>
    ELSE LET pad == IF chars[3] = 61 THEN 2 ELSE IF chars[4] = 61 THEN 1 ELSE 0
             idx(i) == IF chars[i] = 61 THEN 0 ELSE B64Index(chars[i])
             n == idx(1) * 262144 + idx(2) * 4096 + idx(3) * 64 + idx(4)
             three == <<n \div 65536, (n \div 256) % 256, n % 256>>
         IN  SubSeq(three, 1, 3 - pad) \o B64Decode(SubSeq(chars, 5, Len(chars)))

RECURSIVE Inflate(_)
Inflate(runs) ==
    IF Len(runs) < 2 THEN <<>>
    ELSE [i \in 1..runs[1] |-> runs[2]] \o Inflate(SubSeq(runs, 3, Len(runs)))

\* the data of the single entry of an archive
ExtractEntry(archive) == Inflate(SubSeq(archive, 4 + archive[3], Len(archive)))

C19_PackagingRoundTrip ==
    pack.path # "none" =>
        ExtractEntry(B64Decode(pack.envelope.solicitud)) = Utf8Encode(pack.xml)

\* C20: the attempt numbers of the ledger rows of the check-in never
\* decrease in creation order, whichever of the task, _log_submission and
\* the daily report wrote the rows.
C20_AttemptNumbersMonotonic ==
    \A i, j \in 1..Len(logs) : i < j => logs[i].retry_count <= logs[j].retry_count

\* C21: a ledger row in a terminal status (acknowledged or failed) is never
\* modified afterwards; a manual retry leaves an acknowledged row alone and
\* records the retry of a failed row as a new row.
C21_TerminalRowsImmutable ==
    [][\A i \in 1..Len(logs) :
          logs[i].status \in {SubmissionStatus.ACKNOWLEDGED, SubmissionStatus.FAILED}
          => (Len(logs') >= i /\ logs'[i] = logs[i])]_vars

\* C22: handling an HTTP 200 response without the success code never raises:
\* the attempt fails with the domain failure _handle_response returned, and
\* for a body that is not XML or lacks the expected elements that failure is
\* the unparseable one.
C22_ParsingNeverRaises ==
    \A w \in Workers :
        (tw[w].pc = "handler" /\ tw[w].resp.code = 200 /\ ~tw[w].resp.body.ok) =>
            /\ tw[w].res # "raised"
            /\ tw[w].res \in DomainFailures
            /\ tw[w].resp.body.xml # "ns" => tw[w].res = "error_parsing_response"

\* a run failed on an HTTP 200 body that is not well-formed XML
C22_Witness ==
    \E w \in Workers :
        /\ tw[w].pc = "handler"
        /\ tw[w].resp.code = 200
        /\ tw[w].resp.body.xml = "bad"
        /\ tw[w].res = "error_parsing_response"

\* C23: every call of _generate_guest_xml returns a document; two calls for
\* the same guest records return the same document; the document holds one
\* person element per guest, in the guests' order, with role VI for a lead
\* guest and VG for any other, and the document-type code PAS, NIF or NIE
\* for passport, dni or nie.
DocTypeCode(t) ==
    IF t = "passport" THEN "PAS" ELSE IF t = "dni" THEN "NIF"
    ELSE IF t = "nie" THEN "NIE" ELSE "OTR"

C23_BuilderDeterministic ==
    \A c \in 1..Len(doc) :
        LET guests == GuestsInOrder(doc[c].guests)
            personas == doc[c].result.personas
        IN  /\ ~doc[c].result.raised
            /\ Len(personas) = Len(guests)
            /\ \A i \in 1..Len(personas) :
                  /\ personas[i].rol = (IF guests[i].is_lead THEN "VI" ELSE "VG")
                  /\ personas[i].tipoDocumento = DocTypeCode(guests[i].document_type)
            /\ \A d \in 1..Len(doc) :
                  doc[d].guests = doc[c].guests => doc[d].result = doc[c].result

\* C24: the number of guests stored for the check-in never exceeds the
\* reservation's total_guests, however concurrent add-guest requests
\* interleave.
C24_GuestCountBounded ==
    party.total > 0 => Len(party.guests) <= party.total

C26_PendingCanComplete ==
    (/\ stay.last.before = CheckInStatus.PAYMENT_PENDING
     /\ stay.last.payable
     /\ stay.last.result \notin {"bad_upsell", "notify_failed"})
        => ciStatus = CheckInStatus.COMPLETED

\* C27: after a completion request whose payment failed the request is
\* rejected, the stored status is FAILED (EXPIRED once check-out has passed),
\* nothing is scheduled, and amounts, upsells and guardian relationships are
\* what they were before the request.
C27_PaymentFailureStored ==
    stay.last.result = "payment_failed" =>
        /\ complete.http = 400
        /\ ciStatus \in {CheckInStatus.FAILED, CheckInStatus.EXPIRED}
        /\ Cardinality(queue) = stay.last.queued
        /\ stay.paid = stay.last.paid
        /\ stay.fullyPaid = stay.last.fullyPaid
        /\ stay.upsells = stay.last.upsells
        /\ stay.rels = stay.last.rels

C29_SaveAppliesExpiry ==
    [][/\ (pastCheckout /\ complete' # complete /\ complete'.http = 200) =>
              ciStatus' = CheckInStatus.COMPLETED
       /\ (pastCheckout /\ ciStatus' # ciStatus) =>
              ciStatus' \in {CheckInStatus.COMPLETED, CheckInStatus.EXPIRED}
       /\ \A w \in Workers :
              (pastCheckout /\ tw[w].pc = "handler" /\ tw'[w].pc = "idle") =>
                  ciStatus' = CheckInStatus.EXPIRED
      ]_vars

\* after check-out a failed attempt has been recorded by the handler and the
\* check-in is stored as EXPIRED
C29_Witness ==
    /\ pastCheckout
    /\ ciStatus = CheckInStatus.EXPIRED
    /\ Len(logs) > 0
    /\ logs[Len(logs)] = LogRow(SubmissionStatus.FAILED, 0, "error")
    /\ \A w \in Workers : tw[w].pc = "idle"

\* C30: the n-th invoice.payment_failed event of a subscription records a
\* failure log with attempt_number n; after the 1st and 2nd the subscription
\* is past_due with the next retry 3 and 5 days out, from the 3rd on it is
\* suspended; invoice.paid returns a past_due subscription to active and
\* leaves a suspended one suspended.
C30_FailureEscalation ==
    /\ \A i \in 1..Len(sub.failures) : sub.failures[i].attempt_number = i
    /\ (sub.last.type = "invoice.payment_failed" /\ sub.last.known) =>
           LET n == Len(sub.failures) IN
           /\ n = 1 => sub.status = "past_due" /\ sub.failures[1].next_retry_days = 3
           /\ n = 2 => sub.status = "past_due" /\ sub.failures[2].next_retry_days = 5
           /\ n >= 3 => sub.status = "suspended"
    /\ (sub.last.type = "invoice.paid" /\ sub.last.known
            /\ sub.last.before = "past_due") => sub.status = "active"
    /\ (sub.last.type = "invoice.paid" /\ sub.last.before = "suspended") =>
           sub.status = "suspended"

====
